---- MODULE Spec2Model ----
(***************************************************************************)
(* Rolling polynomial hash over an append-only sequence of u64 values      *)
(* (crate rolling_hash): the modular field engine, the hash sequence       *)
(* RollingHasher, the window iterator Windows and the search operations.   *)
(*                                                                         *)
(* TLC integers are 32 bits wide and the moduli are close to 2^61, so a    *)
(* u64 is a little-endian sequence of 15-bit limbs without leading zero    *)
(* limbs (0 is <<>>).  Two values are equal iff their sequences are equal. *)
(***************************************************************************)
EXTENDS Integers, Sequences, FiniteSets, TLC

---------------------------------------------------------------------------
(* Unbounded naturals as limb sequences *)

\* a u64 word is held as limbs of 15 bits, so that limb products stay exact
LimbBits == 15
LimbBase == 2^LimbBits

Hd(s) == IF s = <<>> THEN 0 ELSE Head(s)
Tl(s) == IF s = <<>> THEN <<>> ELSE Tail(s)

RECURSIVE Norm(_)
Norm(s) == IF s = <<>> THEN <<>>
           ELSE IF s[Len(s)] = 0 THEN Norm(SubSeq(s, 1, Len(s) - 1)) ELSE s

RECURSIVE Big(_)
Big(n) == IF n = 0 THEN <<>> ELSE <<n % LimbBase>> \o Big(n \div LimbBase)

RECURSIVE AddC(_, _, _)
AddC(a, b, c) ==
    IF a = <<>> /\ b = <<>> THEN (IF c = 0 THEN <<>> ELSE <<c>>)
    ELSE LET x == Hd(a) + Hd(b) + c
         IN  <<x % LimbBase>> \o AddC(Tl(a), Tl(b), x \div LimbBase)

BAdd(a, b) == AddC(a, b, 0)

RECURSIVE SubB(_, _, _)
SubB(a, b, br) ==
    IF a = <<>> THEN <<>>
    ELSE LET x == Hd(a) - Hd(b) - br
         IN  <<x % LimbBase>> \o SubB(Tl(a), Tl(b), IF x < 0 THEN 1 ELSE 0)

\* a - b for a >= b
BSub(a, b) == Norm(SubB(a, b, 0))

RECURSIVE MulC(_, _, _)
MulC(a, m, c) ==
    IF a = <<>> THEN (IF c = 0 THEN <<>> ELSE <<c>>)
    ELSE LET x == Head(a) * m + c
         IN  <<x % LimbBase>> \o MulC(Tail(a), m, x \div LimbBase)

\* a * m for a limb m
MulSmall(a, m) == IF m = 0 THEN <<>> ELSE MulC(a, m, 0)

ShiftLimb(a) == IF a = <<>> THEN <<>> ELSE <<0>> \o a

RECURSIVE BMul(_, _)
BMul(a, b) ==
    IF a = <<>> \/ b = <<>> THEN <<>>
    ELSE BAdd(MulSmall(a, Head(b)), ShiftLimb(BMul(a, Tail(b))))

RECURSIVE LtFrom(_, _, _)
LtFrom(a, b, i) ==
    IF i = 0 THEN FALSE
    ELSE IF a[i] # b[i] THEN a[i] < b[i] ELSE LtFrom(a, b, i - 1)

BLt(a, b) == IF Len(a) # Len(b) THEN Len(a) < Len(b) ELSE LtFrom(a, b, Len(a))
BLe(a, b) == ~BLt(b, a)

\* TLC passes operator arguments unevaluated; Bind evaluates x once and
\* applies F to the value, which keeps loops over accumulators shallow
Bind(x, F(_)) == CHOOSE y \in {F(v) : v \in {x}} : TRUE

ModStep(r, p) == IF BLt(r, p) THEN r ELSE BSub(r, p)

\* a mod p for a < 2^LimbBits * p, by doubling and subtracting
RECURSIVE ModNear(_, _)
ModNear(a, p) == IF BLt(a, p) THEN a ELSE ModStep(ModNear(a, BAdd(p, p)), p)

\* a mod p, p > 0, one limb of the quotient at a time
RECURSIVE BMod(_, _)
BMod(a, p) ==
    IF BLt(a, p) THEN a
    ELSE IF BLt(a, ShiftLimb(p)) THEN ModNear(a, p)
    ELSE Bind(BMod(a, ShiftLimb(p)), LAMBDA r : ModNear(r, p))

\* a >> s
RECURSIVE BShr(_, _)
BShr(a, s) ==
    IF a = <<>> THEN <<>>
    ELSE IF s >= LimbBits THEN BShr(Tail(a), s - LimbBits)
    ELSE Norm([i \in 1..Len(a) |->
                 (a[i] \div 2^s)
                 + ((IF i < Len(a) THEN a[i + 1] ELSE 0) % 2^s) * 2^(LimbBits - s)])

\* a << s, unbounded
RECURSIVE BShl(_, _)
BShl(a, s) ==
    IF a = <<>> THEN <<>>
    ELSE IF s >= LimbBits THEN <<0>> \o BShl(a, s - LimbBits)
    ELSE MulSmall(a, 2^s)

RECURSIVE AndInt(_, _)
AndInt(x, y) ==
    IF x = 0 \/ y = 0 THEN 0
    ELSE (x % 2) * (y % 2) + 2 * AndInt(x \div 2, y \div 2)

RECURSIVE AndLimbs(_, _)
AndLimbs(a, b) ==
    IF a = <<>> \/ b = <<>> THEN <<>>
    ELSE <<AndInt(Head(a), Head(b))>> \o AndLimbs(Tail(a), Tail(b))

\* a & b
BAnd(a, b) == Norm(AndLimbs(a, b))

Zero == <<>>
One == Big(1)

---------------------------------------------------------------------------
(* u64 arithmetic: the operators of the source on 64-bit words.  An        *)
(* overflowing operation wraps (release build).                            *)

\* 64 = 4 limbs and 4 bits
Wrap64(a) ==
    IF Len(a) <= 4 THEN a
    ELSE Norm(SubSeq(a, 1, 4) \o <<a[5] % 2^(64 - 4 * LimbBits)>>)

IsU64(a) == a = Wrap64(a)

u64_add(a, b) == Wrap64(BAdd(a, b))
u64_mul(a, b) == Wrap64(BMul(a, b))
u64_sub(a, b) == IF BLt(a, b) THEN BSub(BAdd(BShl(One, 64), a), b) ELSE BSub(a, b)
u64_shl(a, s) == Wrap64(BShl(a, s))
u64_rem(a, p) == BMod(a, p)

RECURSIVE npt(_, _)
npt(a, p) == IF BLt(p, a) THEN npt(a, BAdd(p, p)) ELSE p

\* u64::next_power_of_two
next_power_of_two(a) == npt(a, One)

\* u64::ilog2, a > 0; the result is a small integer
RECURSIVE ilog2(_)
ilog2(a) == IF BLt(a, Big(2)) THEN 0 ELSE 1 + ilog2(BShr(a, 1))

---------------------------------------------------------------------------
(* Modular field engine (lib.rs: impl RollingHasher; prime.rs and math.rs  *)
(* hold the same code as Prime::mul_mod and mul_mod::<P>)                  *)

\* supported_prime_impl!: the primes (1 << exp) - diff
PRIMES ==
    << BSub(BShl(One, 57), Big(111)),
       BSub(BShl(One, 57), Big(69)),
       BSub(BShl(One, 57), Big(61)),
       BSub(BShl(One, 57), Big(49)),
       BSub(BShl(One, 57), Big(25)),
       BSub(BShl(One, 57), Big(13)),
       BSub(BShl(One, 58), Big(63)),
       BSub(BShl(One, 58), Big(57)),
       BSub(BShl(One, 58), Big(27)),
       BSub(BShl(One, 61), Big(1)) >>

\* const EXP: u64 = P.next_power_of_two().ilog2()
ConstEXP(p) == ilog2(next_power_of_two(p))
\* const DIFF: u64 = P.next_power_of_two() - P
ConstDIFF(p) == u64_sub(next_power_of_two(p), p)
\* fault seeded for C18: the split is at floor(EXP / 2)
ConstLOWER_BITS_floor(exp) == exp \div 2

\* const LOWER_BITS: u64 = (EXP + 1) / 2
ConstLOWER_BITS(exp) == (exp + 1) \div 2
\* const LOWER_MASK: u64 = (1 << LOWER_BITS) - 1
ConstLOWER_MASK(bits) == u64_sub(u64_shl(One, bits), One)

---------------------------------------------------------------------------
(* State.  P is the const generic modulus of the instantiation, K its      *)
(* associated constants, and base, source, hashed the fields of            *)
(* RollingHasher<P, B>; B is Len(base).  it is the Windows iterator        *)
(* borrowed from the hasher, yielded the items its two ends have returned  *)
(* so far, call the last call and its result, acc the running product kept *)
(* by the cross-check of pow_mod.                                          *)
VARIABLES P, K, base, source, hashed, it, yielded, call, acc

vars == <<P, K, base, source, hashed, it, yielded, call, acc>>

\* the associated constants of the instantiation for modulus p
Consts(p) ==
    LET e == ConstEXP(p)
        l == ConstLOWER_BITS(e)
    IN  [EXP |-> e, DIFF |-> ConstDIFF(p),
         LOWER_BITS |-> l, LOWER_MASK |-> ConstLOWER_MASK(l)]

EXP == K.EXP
DIFF == K.DIFF
LOWER_BITS == K.LOWER_BITS
LOWER_MASK == K.LOWER_MASK

\* fault seeded for C1: the factor that folds 2^(2 * LOWER_BITS) is dropped
parity_factor_dropped == One

\* EXP % 2 + 1
parity_factor == Big((EXP % 2) + 1)

\* let uu = lhs_u * rhs_u * (EXP % 2 + 1) * DIFF
mul_mod_uu(lhs_u, rhs_u) ==
    u64_mul(u64_mul(u64_mul(lhs_u, rhs_u), parity_factor), DIFF)

\* let cross = lhs_u * rhs_l + lhs_l * rhs_u
mul_mod_cross_sum(lhs_l, lhs_u, rhs_l, rhs_u) ==
    u64_add(u64_mul(lhs_u, rhs_l), u64_mul(lhs_l, rhs_u))

\* cross_u * (EXP % 2 + 1) * DIFF + (cross_l << LOWER_BITS)
mul_mod_cross(cross) ==
    u64_add(u64_mul(u64_mul(BShr(cross, LOWER_BITS), parity_factor), DIFF),
            u64_shl(BAnd(cross, LOWER_MASK), LOWER_BITS))

\* let ll = lhs_l * rhs_l
mul_mod_ll(lhs_l, rhs_l) == u64_mul(lhs_l, rhs_l)

\* uu % P + cross + ll
mul_mod_sum(uu, cross, ll) == u64_add(u64_add(u64_rem(uu, P), cross), ll)

mul_mod_halves(lhs_l, lhs_u, rhs_l, rhs_u) ==
    u64_rem(mul_mod_sum(mul_mod_uu(lhs_u, rhs_u),
                        mul_mod_cross(mul_mod_cross_sum(lhs_l, lhs_u, rhs_l, rhs_u)),
                        mul_mod_ll(lhs_l, rhs_l)),
            P)

\* const fn mul_mod(lhs, rhs): (uu % P + cross + ll) % P
mul_mod(lhs, rhs) ==
    mul_mod_halves(BAnd(lhs, LOWER_MASK), BShr(lhs, LOWER_BITS),
                   BAnd(rhs, LOWER_MASK), BShr(rhs, LOWER_BITS))

\* pub fn pow_mod(value, exp): square and multiply; exp is a small integer here
RECURSIVE pow_mod_loop(_, _, _)
pow_mod_loop(result, value, exp) ==
    IF exp > 0
    THEN Bind(IF exp % 2 = 1 THEN mul_mod(result, value) ELSE result,
              LAMBDA r : Bind(mul_mod(value, value),
                              LAMBDA v : pow_mod_loop(r, v, exp \div 2)))
    ELSE result

\* fault seeded for C2: the accumulator starts at value instead of 1
pow_mod_from_value(value, exp) == pow_mod_loop(value, value, exp)

pow_mod(value, exp) == pow_mod_loop(One, value, exp)

---------------------------------------------------------------------------
(* Results of calls *)

None == [some |-> FALSE]
Some(v) == [some |-> TRUE, val |-> v]
Panic == [panic |-> TRUE]
Returned(v) == [panic |-> FALSE, val |-> v]

NoCall == [fn |-> "none"]
NoWindows == [alive |-> FALSE]
NoneYielded == [next |-> <<>>, next_back |-> <<>>]

---------------------------------------------------------------------------
(* Hash sequence (lib.rs: RollingHasher; oneway.rs holds the same code     *)
(* without the source field)                                               *)

\* fault seeded for C17: every component is extended with the first base
hash_next_first_base(b, prev, next) ==
    [i \in 1..Len(b) |-> u64_rem(u64_add(mul_mod(prev[i], b[1]), next), P)]

\* fault seeded for C5: the sum is not reduced
hash_next_unreduced(b, prev, next) ==
    [i \in 1..Len(b) |-> u64_add(mul_mod(prev[i], b[i]), next)]

\* fn hash_next(&self, prev, next): (mul_mod(prev[i], base[i]) + next) % P
hash_next(b, prev, next) ==
    [i \in 1..Len(b) |-> u64_rem(u64_add(mul_mod(prev[i], b[i]), next), P)]

RECURSIVE hash_fold(_, _, _)
hash_fold(b, prev, slice) ==
    IF slice = <<>> THEN prev
    ELSE Bind(hash_next(b, prev, u64_rem(Head(slice), P)),
              LAMBDA h : hash_fold(b, h, Tail(slice)))

\* fn hash_slice(&self, slice): fold([0; B], |prev, next| hash_next(&prev, next % P))
hash_slice(b, slice) == hash_fold(b, [i \in 1..Len(b) |-> Zero], slice)

\* fault seeded for C9: every push takes the path of the first one
push_hashed_cold(b, h, value) == [i \in 1..Len(b) |-> value]

\* the element push adds to hashed
push_hashed(b, h, value) ==
    IF h # <<>> THEN hash_next(b, h[Len(h)], value)
    ELSE [i \in 1..Len(b) |-> value]

\* fault seeded for C14: every element extends the hash stored before the call
append_hashed_unchained(b, h, other) ==
    h \o [i \in 1..Len(other) |-> push_hashed(b, h, other[i])]

\* pub fn append: for value in other.drain(..) { self.push(value) }
RECURSIVE append_hashed(_, _, _)
append_hashed(b, h, other) ==
    IF other = <<>> THEN h
    ELSE Bind(Append(h, push_hashed(b, h, Head(other))),
              LAMBDA h2 : append_hashed(b, h2, Tail(other)))

\* pub const fn len(&self): self.source.len()
len == Len(source)

\* pub const fn is_empty(&self): self.source.is_empty()
is_empty == source = <<>>

---------------------------------------------------------------------------
(* Window iterator (windows.rs)                                            *)

Uninit == [init |-> FALSE]
Cell(v) == [init |-> TRUE, val |-> v]

\* Windows::new
Windows_new(h, b, size) ==
    [alive |-> TRUE, hashed |-> h, size |-> size,
     base_or_offset |-> b, base_pow_size |-> Uninit]

\* fault seeded for C3: base_or_offset is not cleared when the cell is set
get_or_init_unfilled(w) ==
    IF w.base_pow_size.init THEN w
    ELSE [w EXCEPT
            !.base_pow_size =
                Cell([i \in 1..Len(w.base_or_offset) |->
                        pow_mod(w.base_or_offset[i], w.size)])]

\* self.base_pow_size.get_or_init(..): the cell and base_or_offset afterwards
get_or_init(w) ==
    IF w.base_pow_size.init THEN w
    ELSE [w EXCEPT
            !.base_pow_size =
                Cell([i \in 1..Len(w.base_or_offset) |->
                        pow_mod(w.base_or_offset[i], w.size)]),
            !.base_or_offset = [i \in 1..Len(w.base_or_offset) |-> Zero]]

\* fault seeded for C8: P is not added before the subtraction
sub_scaled_wrapping(x, y, pow) == u64_rem(u64_sub(x, mul_mod(y, pow)), P)

\* (x + P - mul_mod(y, pow)) % P
sub_scaled(x, y, pow) == u64_rem(u64_sub(u64_add(x, P), mul_mod(y, pow)), P)

\* fn next(&mut self): the item and the iterator afterwards
next(w) ==
    IF w.size > Len(w.hashed) THEN [ret |-> None, it |-> w]
    ELSE Bind(get_or_init(w), LAMBDA v :
           [ret |-> Some([i \in 1..Len(v.base_or_offset) |->
                            sub_scaled(v.hashed[v.size][i], v.base_or_offset[i],
                                       v.base_pow_size.val[i])]),
            it  |-> [v EXCEPT !.base_or_offset = v.hashed[1],
                              !.hashed = Tail(v.hashed)]])

\* fault seeded for C16: the window length itself is subtracted
size_hint_short(w) ==
    LET size == IF Len(w.hashed) >= w.size THEN Len(w.hashed) - w.size ELSE 0
    IN  <<size, Some(size)>>

\* fn size_hint(&self): hashed.len().saturating_sub(size - 1)
size_hint(w) ==
    LET size == IF Len(w.hashed) >= w.size - 1 THEN Len(w.hashed) - (w.size - 1) ELSE 0
    IN  <<size, Some(size)>>

\* fault seeded for C4: the prefix one element too far to the right
back_offset_shifted(w) == w.hashed[Len(w.hashed) - w.size + 1]

\* self.hashed[self.hashed.len() - self.size.get() - 1]
back_offset(w) == w.hashed[Len(w.hashed) - w.size]

\* fn next_back(&mut self)
next_back(w) ==
    IF w.size < Len(w.hashed)
    THEN Bind(get_or_init(w), LAMBDA v :
           [ret |-> Some([i \in 1..Len(v.base_or_offset) |->
                            sub_scaled(v.hashed[Len(v.hashed)][i],
                                       back_offset(v)[i],
                                       v.base_pow_size.val[i])]),
            it  |-> [v EXCEPT !.hashed = SubSeq(v.hashed, 1, Len(v.hashed) - 1)]])
    ELSE IF w.size = Len(w.hashed)
    THEN [ret |-> Some(w.hashed[w.size]),
          it  |-> [w EXCEPT !.hashed = SubSeq(w.hashed, 1, w.size - 1)]]
    ELSE [ret |-> None, it |-> w]

---------------------------------------------------------------------------
(* Search operations (lib.rs: position, rposition, positions, count),      *)
(* with the std adaptors they drive the iterator through                   *)

\* fault seeded for C11: a window length of 0 is taken as 1
windows_clamped(h, b, size) == Windows_new(h, b, IF size = 0 THEN 1 ELSE size)

\* fault seeded for C10: a window longer than the sequence is refused
windows_strict(h, b, size) ==
    IF size = 0 \/ size > Len(h) THEN Panic ELSE Windows_new(h, b, size)

\* fn windows(&self, size): NonZero::new(size).expect(..)
windows(h, b, size) == IF size = 0 THEN Panic ELSE Windows_new(h, b, size)

\* Iterator::position: the index of the first item equal to target
RECURSIVE position_loop(_, _, _)
position_loop(w, target, i) ==
    Bind(next(w), LAMBDA r :
        IF ~r.ret.some THEN None
        ELSE IF r.ret.val = target THEN Some(i)
        ELSE position_loop(r.it, target, i + 1))

\* Iterator::rposition: i starts at len() and is decremented per item from the back
RECURSIVE rposition_loop(_, _, _)
rposition_loop(w, target, i) ==
    Bind(next_back(w), LAMBDA r :
        IF ~r.ret.some THEN None
        ELSE IF r.ret.val = target THEN Some(i - 1)
        ELSE rposition_loop(r.it, target, i - 1))

\* enumerate().filter_map(..), consumed to its end
RECURSIVE positions_loop(_, _, _)
positions_loop(w, target, i) ==
    Bind(next(w), LAMBDA r :
        IF ~r.ret.some THEN <<>>
        ELSE (IF r.ret.val = target THEN <<i>> ELSE <<>>)
             \o positions_loop(r.it, target, i + 1))

\* filter(..).count()
RECURSIVE count_loop(_, _, _)
count_loop(w, target, c) ==
    Bind(next(w), LAMBDA r :
        IF ~r.ret.some THEN c
        ELSE count_loop(r.it, target, IF r.ret.val = target THEN c + 1 ELSE c))

position(h, b, slice) ==
    LET target == hash_slice(b, slice)
        w == windows(h, b, Len(slice))
    IN  IF w = Panic THEN Panic ELSE Returned(position_loop(w, target, 0))

\* fault seeded for C6: the index counts down from the number of elements
rposition_from_len(h, b, slice) ==
    LET target == hash_slice(b, slice)
        w == windows(h, b, Len(slice))
    IN  IF w = Panic THEN Panic ELSE Returned(rposition_loop(w, target, Len(h)))

rposition(h, b, slice) ==
    LET target == hash_slice(b, slice)
        w == windows(h, b, Len(slice))
    IN  IF w = Panic THEN Panic ELSE Returned(rposition_loop(w, target, size_hint(w)[1]))

positions(h, b, slice) ==
    LET target == hash_slice(b, slice)
        w == windows(h, b, Len(slice))
    IN  IF w = Panic THEN Panic ELSE Returned(positions_loop(w, target, 0))

\* fault seeded for C7: every window is counted
count_unfiltered(h, b, slice) ==
    LET w == windows(h, b, Len(slice))
    IN  IF w = Panic THEN Panic ELSE Returned(size_hint(w)[1])

count(h, b, slice) ==
    LET target == hash_slice(b, slice)
        w == windows(h, b, Len(slice))
    IN  IF w = Panic THEN Panic ELSE Returned(count_loop(w, target, 0))

---------------------------------------------------------------------------
(* Operations as actions *)

MaxLen == 3
MaxNeedle == 2
MaxExp == 64

\* pushed values are residues (push requires value < P)
Values == {Big(7), BSub(P, One)}

SeqsUpTo(S, n) == UNION {[1..m -> S] : m \in 0..n}

\* RollingHasher::new(): base[i] = random_range(2..=P - 2)
new(p, b) ==
    /\ P = p
    /\ K = Consts(p)
    /\ base = b
    /\ source = <<>>
    /\ hashed = <<>>

Idle == ~it.alive /\ call = NoCall

\* fault seeded for C12: the value is not pushed to source
Push_hashed_only(value) ==
    /\ Idle
    /\ hashed' = Append(hashed, push_hashed(base, hashed, value))
    /\ call' = [fn |-> "push", value |-> value]
    /\ UNCHANGED <<P, K, base, source, it, yielded, acc>>

Push(value) ==
    /\ Idle
    /\ hashed' = Append(hashed, push_hashed(base, hashed, value))
    /\ source' = Append(source, value)
    /\ call' = [fn |-> "push", value |-> value]
    /\ UNCHANGED <<P, K, base, it, yielded, acc>>

AppendVec(other) ==
    /\ Idle
    /\ hashed' = append_hashed(base, hashed, other)
    /\ source' = source \o other
    /\ call' = [fn |-> "append", arg |-> other, other |-> <<>>]
    /\ UNCHANGED <<P, K, base, it, yielded, acc>>

\* the caller takes the result of the last call
Done ==
    /\ ~it.alive
    /\ call # NoCall
    /\ call' = NoCall
    /\ UNCHANGED <<P, K, base, source, hashed, it, yielded, acc>>

Position(slice) ==
    /\ Idle
    /\ call' = [fn |-> "position", slice |-> slice, out |-> position(hashed, base, slice)]
    /\ UNCHANGED <<P, K, base, source, hashed, it, yielded, acc>>

Rposition(slice) ==
    /\ Idle
    /\ call' = [fn |-> "rposition", slice |-> slice, out |-> rposition(hashed, base, slice)]
    /\ UNCHANGED <<P, K, base, source, hashed, it, yielded, acc>>

Positions(slice) ==
    /\ Idle
    /\ call' = [fn |-> "positions", slice |-> slice, out |-> positions(hashed, base, slice)]
    /\ UNCHANGED <<P, K, base, source, hashed, it, yielded, acc>>

Count(slice) ==
    /\ Idle
    /\ call' = [fn |-> "count", slice |-> slice, out |-> count(hashed, base, slice)]
    /\ UNCHANGED <<P, K, base, source, hashed, it, yielded, acc>>

\* self.windows(size) with size > 0: the iterator borrows the hasher
WindowsNew(size) ==
    /\ Idle
    /\ it' = windows(hashed, base, size)
    /\ yielded' = NoneYielded
    /\ call' = [fn |-> "windows", size |-> size]
    /\ UNCHANGED <<P, K, base, source, hashed, acc>>

\* fault seeded for C13: the step narrows the hasher's vector with the view
Next_narrowing ==
    /\ it.alive
    /\ \E r \in {next(it)} :
           /\ it' = r.it
           /\ hashed' = r.it.hashed
           /\ call' = [fn |-> "next", ret |-> r.ret]
           /\ yielded' = IF r.ret.some
                         THEN [yielded EXCEPT !.next = Append(@, r.ret.val)]
                         ELSE yielded
    /\ UNCHANGED <<P, K, base, source, acc>>

Next ==
    /\ it.alive
    /\ \E r \in {next(it)} :
           /\ it' = r.it
           /\ call' = [fn |-> "next", ret |-> r.ret]
           /\ yielded' = IF r.ret.some
                         THEN [yielded EXCEPT !.next = Append(@, r.ret.val)]
                         ELSE yielded
    /\ UNCHANGED <<P, K, base, source, hashed, acc>>

NextBack ==
    /\ it.alive
    /\ \E r \in {next_back(it)} :
           /\ it' = r.it
           /\ call' = [fn |-> "next_back", ret |-> r.ret]
           /\ yielded' = IF r.ret.some
                         THEN [yielded EXCEPT !.next_back = Append(@, r.ret.val)]
                         ELSE yielded
    /\ UNCHANGED <<P, K, base, source, hashed, acc>>

\* the iterator is dropped and the borrow ends
Drop ==
    /\ it.alive
    /\ it' = NoWindows
    /\ yielded' = NoneYielded
    /\ call' = NoCall
    /\ UNCHANGED <<P, K, base, source, hashed, acc>>

CallLen ==
    /\ Idle
    /\ call' = [fn |-> "len", out |-> len]
    /\ UNCHANGED <<P, K, base, source, hashed, it, yielded, acc>>

CallIsEmpty ==
    /\ Idle
    /\ call' = [fn |-> "is_empty", out |-> is_empty]
    /\ UNCHANGED <<P, K, base, source, hashed, it, yielded, acc>>

MulMod(a, b) ==
    /\ call = NoCall
    /\ call' = [fn |-> "mul_mod", lhs |-> a, rhs |-> b, ret |-> mul_mod(a, b)]
    /\ UNCHANGED <<P, K, base, source, hashed, it, yielded, acc>>

\* pow_mod(value, 0), then pow_mod(value, exp + 1) after pow_mod(value, exp);
\* acc is 1 multiplied by value once per step
PowMod(value) ==
    /\ call = NoCall
    /\ call' = [fn |-> "pow_mod", value |-> value, exp |-> 0, ret |-> pow_mod(value, 0)]
    /\ acc' = One
    /\ UNCHANGED <<P, K, base, source, hashed, it, yielded>>

PowModNext ==
    /\ call.fn = "pow_mod"
    /\ call.exp < MaxExp
    /\ call' = [call EXCEPT !.exp = @ + 1, !.ret = pow_mod(call.value, call.exp + 1)]
    /\ acc' = mul_mod(acc, call.value)
    /\ UNCHANGED <<P, K, base, source, hashed, it, yielded>>

---------------------------------------------------------------------------
(* Specifications *)

Quiet == it = NoWindows /\ yielded = NoneYielded /\ call = NoCall /\ acc = One

\* Operands of the engine: the ends of [0, P), the split point and mixed words
Mixed1(p) == BMod(BMul(Big(123456789), Big(987654321)), p)
Mixed2(p) == BMod(BMul(BMul(Big(1000000007), Big(998244353)), Big(1000003)), p)

\* the largest operand whose lower half is all ones: 2^EXP - 2^LOWER_BITS - 1
LowOnes == BSub(BSub(BShl(One, EXP), BShl(One, LOWER_BITS)), One)

Operands(p) ==
    { Zero, One, Big(2), LOWER_MASK, BAdd(LOWER_MASK, One), LowOnes,
      BSub(p, One), BSub(p, Big(2)), BShr(p, 1), Mixed1(p), Mixed2(p) }

PowBases(p) == { Zero, Big(2), BSub(p, One), BSub(p, Big(2)), Mixed2(p) }

\* the engine alone, for every supported prime
InitMath ==
    /\ \E i \in DOMAIN PRIMES : new(PRIMES[i], <<>>)
    /\ Quiet

NextMath ==
    \/ \E a \in Operands(P), b \in Operands(P) : MulMod(a, b)
    \/ \E b \in PowBases(P) : PowMod(b)
    \/ PowModNext

SpecMath == InitMath /\ [][NextMath]_vars

\* instantiations RollingHasher<P, B> with the bases new() drew
Instances ==
    { [P |-> PRIMES[1], base |-> <<Big(2)>>],
      [P |-> PRIMES[7], base |-> <<BSub(PRIMES[7], Big(2)), Big(3)>>],
      [P |-> PRIMES[10], base |-> <<Mixed2(PRIMES[10])>>] }

InitHasher ==
    /\ \E c \in Instances : new(c.P, c.base)
    /\ Quiet

Needles == SeqsUpTo(Values, MaxNeedle)

\* the hash sequence and its searches
NextSearch ==
    \/ \E v \in Values : Len(source) < MaxLen /\ Push(v)
    \/ \E other \in SeqsUpTo(Values, MaxLen) :
          Len(source) + Len(other) <= MaxLen /\ AppendVec(other)
    \/ Done
    \/ \E slice \in Needles : Position(slice)
    \/ \E slice \in Needles : Rposition(slice)
    \/ \E slice \in Needles : Positions(slice)
    \/ \E slice \in Needles : Count(slice)

SpecSearch == InitHasher /\ [][NextSearch]_vars

\* the hash sequence and a window iterator stepped from both ends
NextWindows ==
    \/ \E v \in Values : Len(source) < MaxLen /\ Push(v)
    \/ \E other \in SeqsUpTo(Values, MaxLen) :
          Len(source) + Len(other) <= MaxLen /\ AppendVec(other)
    \/ Done
    \/ \E size \in 1..(MaxLen + 1) : WindowsNew(size)
    \/ Next
    \/ NextBack
    \/ Drop

SpecWindows == InitHasher /\ [][NextWindows]_vars

\* every operation of the hash sequence and of its window iterator
NextHasher ==
    \/ \E v \in Values : Len(source) < MaxLen /\ Push(v)
    \/ \E other \in SeqsUpTo(Values, MaxLen) :
          Len(source) + Len(other) <= MaxLen /\ AppendVec(other)
    \/ Done
    \/ CallLen
    \/ CallIsEmpty
    \/ \E slice \in Needles : Position(slice)
    \/ \E slice \in Needles : Rposition(slice)
    \/ \E slice \in Needles : Positions(slice)
    \/ \E slice \in Needles : Count(slice)
    \/ \E size \in 1..(MaxLen + 1) : WindowsNew(size)
    \/ Next
    \/ NextBack
    \/ Drop

SpecHasher == InitHasher /\ [][NextHasher]_vars

\* the sequence of the concrete scenarios, P = 2^61 - 1 and one base
Scenario == <<Big(3), Big(1), Big(4), Big(1), Big(5), Big(9), Big(2), Big(6)>>

\* the bases b in [2, P - 2] for which a window of Scenario other than the one
\* at index 3 hashes like [1, 5]: 3b + 1 = b + 5, 4b + 1 = b + 5, 9b + 2 = b + 5
\* (mod P), that is b = 2, b = (2^62 + 2) / 3 and b = 3 * 2^58
Collide31 == Big(2)
Collide41 == BAdd(BMul(Big(1537228672), Big(1000000000)), Big(809129302))
Collide92 == BShl(Big(3), 58)
CollidingBases == {Collide31, Collide41, Collide92}

ScenarioBases ==
    CollidingBases \cup
    { Big(3), Big(5), BSub(PRIMES[10], Big(2)), BSub(PRIMES[10], Big(3)),
      Mixed1(PRIMES[10]), Mixed2(PRIMES[10]) }

ScenarioNeedles == { <<Big(1), Big(5)>>, <<Big(1)>> }

InitScenario ==
    /\ \E b \in ScenarioBases : new(PRIMES[10], <<b>>)
    /\ Quiet

NextScenario ==
    \/ Len(source) < Len(Scenario) /\ Push(Scenario[Len(source) + 1])
    \/ Done
    \/ \E slice \in ScenarioNeedles : Position(slice)
    \/ \E slice \in ScenarioNeedles : Rposition(slice)
    \/ \E slice \in ScenarioNeedles : Positions(slice)
    \/ \E slice \in ScenarioNeedles : Count(slice)

SpecScenario == InitScenario /\ [][NextScenario]_vars

---------------------------------------------------------------------------
(* Modular field engine: claims *)

\* reference: the product in unbounded arithmetic, reduced
WideMulMod(p, a, b) == BMod(BMul(a, b), p)

\* C1: for every supported prime P and all a, b in [0, P), mul_mod(a, b) is
\* (a * b) mod P with the product taken in unbounded arithmetic
T1_MulModIsWideProduct ==
    call.fn = "mul_mod" =>
        (BLt(call.lhs, P) /\ BLt(call.rhs, P)
            => call.ret = WideMulMod(P, call.lhs, call.rhs))

W1_MulModLargeOperands ==
    /\ call.fn = "mul_mod"
    /\ call.lhs = BSub(P, One)
    /\ call.rhs = BSub(P, Big(2))
    /\ P = PRIMES[1]

\* C2: pow_mod(base, exp) is 1 multiplied exp times by base with mul_mod, for
\* 0 <= exp <= 64, and pow_mod(base, 0) = 1
T2_PowModIsRepeatedMul ==
    call.fn = "pow_mod" =>
        /\ call.exp <= 64 => call.ret = acc
        /\ call.exp = 0 => call.ret = One

W2_PowModExp64 ==
    /\ call.fn = "pow_mod"
    /\ call.exp = 64
    /\ call.value = BSub(P, Big(2))
    /\ call.ret # One

---------------------------------------------------------------------------
(* Window iterator: claims *)

Reverse(q) == [i \in 1..Len(q) |-> q[Len(q) + 1 - i]]

\* the hash of the window of length k that starts at index i (from 0), by
\* direct folding from the zero vector
WindowFold(i, k) == hash_slice(base, SubSeq(source, i + 1, i + k))

\* a fresh iterator driven with next until None
RECURSIVE collect_next(_)
collect_next(w) ==
    Bind(next(w), LAMBDA r :
        IF r.ret.some THEN <<r.ret.val>> \o collect_next(r.it) ELSE <<>>)

\* C3: driven forward only, an iterator of window length k, 1 <= k <= n, yields
\* n - k + 1 items, and the i-th is hash_slice of the window starting at i
T3_ForwardIsDirectFold ==
    (it.alive /\ yielded.next_back = <<>> /\ it.size <= Len(source)) =>
        /\ Len(yielded.next) <= Len(source) - it.size + 1
        /\ \A i \in 1..Len(yielded.next) : yielded.next[i] = WindowFold(i - 1, it.size)
        /\ (call.fn = "next" /\ ~call.ret.some)
               => Len(yielded.next) = Len(source) - it.size + 1
        /\ (call.fn = "next" /\ call.ret.some)
               => call.ret.val = yielded.next[Len(yielded.next)]

W3_ForwardExhausted ==
    /\ it.alive
    /\ yielded.next_back = <<>>
    /\ call.fn = "next"
    /\ ~call.ret.some
    /\ it.size = 2
    /\ Len(source) = MaxLen
    /\ Len(yielded.next) = MaxLen - 1
    /\ Len(base) = 2

\* C4: driven with next_back only until None, a fresh iterator yields the list
\* a fresh iterator driven with next only yields, reversed
T4_BackwardIsForwardReversed ==
    (it.alive /\ yielded.next = <<>> /\ call.fn = "next_back" /\ ~call.ret.some) =>
        yielded.next_back = Reverse(collect_next(windows(hashed, base, it.size)))

W4_BackwardExhausted ==
    /\ it.alive
    /\ yielded.next = <<>>
    /\ call.fn = "next_back"
    /\ ~call.ret.some
    /\ it.size = 2
    /\ Len(yielded.next_back) = MaxLen - 1
    /\ yielded.next_back[1] # yielded.next_back[2]

---------------------------------------------------------------------------
(* Search operations: claims *)

IsSearch == call.fn \in {"position", "rposition", "positions", "count"}

\* the needle is the contiguous subsequence of source starting at index i
OccursAt(i, slice) == SubSeq(source, i + 1, i + Len(slice)) = slice

Starts(slice) == {i \in 0..(Len(source) - Len(slice)) : TRUE}

\* M: the window starts whose hash vector equals hash_slice(T)
Matches(slice) ==
    Bind(hash_slice(base, slice), LAMBDA target :
        {i \in Starts(slice) : WindowFold(i, Len(slice)) = target})

SetMin(S) == CHOOSE x \in S : \A y \in S : x <= y
SetMax(S) == CHOOSE x \in S : \A y \in S : x >= y

RECURSIVE Ascending(_)
Ascending(S) == IF S = {} THEN <<>> ELSE <<SetMin(S)>> \o Ascending(S \ {SetMin(S)})

InSeq(x, q) == \E j \in 1..Len(q) : q[j] = x

SevenSevenSeven == <<Big(7), Big(7), Big(7)>>

\* C5: a needle that occurs in source at index i is reported: positions yields
\* i, count >= 1, position is Some(j) with j <= i and rposition Some(j), j >= i
T5_NoFalseNegative ==
    (IsSearch /\ call.slice # <<>>) =>
        /\ \A i \in Starts(call.slice) :
              OccursAt(i, call.slice) =>
                 /\ call.fn = "position" => (~call.out.panic /\ call.out.val.some /\ call.out.val.val <= i)
                 /\ call.fn = "rposition" => (~call.out.panic /\ call.out.val.some /\ call.out.val.val >= i)
                 /\ call.fn = "positions" => (~call.out.panic /\ InSeq(i, call.out.val))
                 /\ call.fn = "count" => (~call.out.panic /\ call.out.val >= 1)
        /\ (source = SevenSevenSeven /\ call.slice = <<Big(7), Big(7)>>
              /\ call.fn = "positions")
              => (InSeq(0, call.out.val) /\ InSeq(1, call.out.val))

W5_SevenSevenFound ==
    /\ call.fn = "positions"
    /\ source = SevenSevenSeven
    /\ call.slice = <<Big(7), Big(7)>>
    /\ call.out.val = <<0, 1>>
    /\ Len(base) = 2

\* C6: position returns the minimum of M and rposition the maximum, and each
\* returns None exactly when M is empty
T6_PositionIsMinRpositionIsMax ==
    (call.fn \in {"position", "rposition"} /\ call.slice # <<>>) =>
        Bind(Matches(call.slice), LAMBDA M :
            /\ ~call.out.panic
            /\ call.out.val.some <=> M # {}
            /\ (call.fn = "position" /\ M # {}) => call.out.val.val = SetMin(M)
            /\ (call.fn = "rposition" /\ M # {}) => call.out.val.val = SetMax(M))

W6_RpositionLast ==
    /\ call.fn = "rposition"
    /\ Len(call.slice) = 2
    /\ call.out.val = Some(1)
    /\ Cardinality(Matches(call.slice)) = 2

\* C7: positions yields the elements of M, each once, ascending, and count is
\* the number of elements of M, the number of items positions yields
T7_PositionsIsMCountIsSize ==
    (call.fn \in {"positions", "count"} /\ call.slice # <<>>) =>
        Bind(Matches(call.slice), LAMBDA M :
            /\ ~call.out.panic
            /\ call.fn = "positions" => call.out.val = Ascending(M)
            /\ call.fn = "count" =>
                  /\ call.out.val = Cardinality(M)
                  /\ call.out.val = Len(positions(hashed, base, call.slice).val))

W7_CountTwo ==
    /\ call.fn = "count"
    /\ Len(call.slice) = 1
    /\ call.out.val = 2
    /\ Len(source) = MaxLen
    /\ ~OccursAt(1, call.slice)

\* C10: with a non-empty needle longer than the sequence, position and
\* rposition return None, positions yields nothing and count returns 0
T10_NeedleLongerThanSequence ==
    (IsSearch /\ call.slice # <<>> /\ Len(call.slice) > Len(source)) =>
        /\ ~call.out.panic
        /\ call.fn \in {"position", "rposition"} => call.out.val = None
        /\ call.fn = "positions" => call.out.val = <<>>
        /\ call.fn = "count" => call.out.val = 0

W10_LongNeedleRposition ==
    /\ call.fn = "rposition"
    /\ Len(call.slice) = 2
    /\ Len(source) = 1
    /\ call.out.val = None

---------------------------------------------------------------------------
(* Concrete scenarios: claims *)

\* C8 as stated: with [3,1,4,1,5,9,2,6] pushed, for every base in [2, P - 2],
\* position([1,5]) is 3, positions([1,5]) yields one index, count([1,5]) is 1
C8_EveryBase ==
    (IsSearch /\ source = Scenario /\ call.slice = <<Big(1), Big(5)>>) =>
        /\ call.fn = "position" => call.out.val = Some(3)
        /\ call.fn = "positions" => Len(call.out.val) = 1
        /\ call.fn = "count" => call.out.val = 1

\* C8, amended: the same for every base in [2, P - 2] other than 2,
\* (2^62 + 2) / 3 and 3 * 2^58, for which another window collides with [1,5]
T8_EveryNonCollidingBase ==
    (IsSearch /\ source = Scenario /\ call.slice = <<Big(1), Big(5)>>
        /\ base[1] \notin CollidingBases) =>
        /\ call.fn = "position" => call.out.val = Some(3)
        /\ call.fn = "positions" => call.out.val = <<3>>
        /\ call.fn = "count" => call.out.val = 1

W8_PositionThree ==
    /\ call.fn = "position"
    /\ source = Scenario
    /\ call.slice = <<Big(1), Big(5)>>
    /\ base[1] = BSub(P, Big(2))
    /\ call.out.val = Some(3)

\* C9: with [3,1,4,1,5,9,2,6] pushed and needle [1], for every base positions
\* yields [1, 3], rposition returns 3 and count returns 2
T9_NeedleOne ==
    (IsSearch /\ source = Scenario /\ call.slice = <<Big(1)>>) =>
        /\ call.fn = "positions" => call.out.val = <<1, 3>>
        /\ call.fn = "rposition" => call.out.val = Some(3)
        /\ call.fn = "count" => call.out.val = 2

W9_RpositionThree ==
    /\ call.fn = "rposition"
    /\ source = Scenario
    /\ call.slice = <<Big(1)>>
    /\ call.out.val = Some(3)
    /\ base[1] = Collide31

---------------------------------------------------------------------------
(* Window length 0: claims *)

\* C11: windows(0) panics before an iterator is constructed, so a search with
\* an empty needle panics in every sequence state and returns no result
T11_EmptyNeedlePanics ==
    /\ windows(hashed, base, 0) = Panic
    /\ (IsSearch /\ call.slice = <<>>) => call.out = Panic

W11_EmptyNeedleCount ==
    /\ call.fn = "count"
    /\ call.slice = <<>>
    /\ Len(source) = MaxLen
    /\ call.out.panic

---------------------------------------------------------------------------
(* Hash sequence: claims *)

\* C12: after any pushes and appends of values < P every component of every
\* stored hash vector is in [0, P), and hashed.len() = source.len() = len(),
\* with is_empty() exactly when that number is 0
T12_StoredHashesReduced ==
    /\ \A i \in 1..Len(hashed) :
          /\ Len(hashed[i]) = Len(base)
          /\ \A j \in 1..Len(base) : BLt(hashed[i][j], P)
    /\ Len(hashed) = Len(source)
    /\ len = Len(hashed)
    /\ is_empty <=> Len(hashed) = 0

W12_FullOfLargeValues ==
    /\ call.fn = "push"
    /\ len = MaxLen
    /\ ~is_empty
    /\ \A i \in 1..Len(source) : source[i] = BSub(P, One)
    /\ Len(base) = 2

\* a step that is a call of fn
Calls(fn) == call' # call /\ call'.fn = fn

\* C13: push and append are the only operations that change base, source or
\* hashed; a push adds exactly one element; no step changes base, shortens
\* the sequence or rewrites an element of hashed already stored
T13_OnlyPushAndAppendMutate ==
    [][ /\ base' = base
        /\ Len(source') >= Len(source)
        /\ Len(hashed') >= Len(hashed)
        /\ \A i \in 1..Len(hashed) : hashed'[i] = hashed[i]
        /\ Calls("push") =>
              (Len(source') = Len(source) + 1 /\ Len(hashed') = Len(hashed) + 1)
        /\ ~(Calls("push") \/ Calls("append")) =>
              (source' = source /\ hashed' = hashed) ]_vars

W13_IteratorMovedHasherIntact ==
    /\ it.alive
    /\ call.fn = "next_back"
    /\ yielded.next # <<>>
    /\ yielded.next_back # <<>>
    /\ Len(it.hashed) = Len(hashed) - 2
    /\ Len(hashed) = MaxLen

\* hashed after push(vals[1]), .., push(vals[Len(vals)]) on a sequence whose
\* hashed is h, the last push taken last
RECURSIVE PushEach(_, _)
PushEach(h, vals) ==
    IF vals = <<>> THEN h
    ELSE Bind(PushEach(h, SubSeq(vals, 1, Len(vals) - 1)), LAMBDA g :
            Append(g, push_hashed(base, g, vals[Len(vals)])))

\* C14: append(other) leaves hashed and source as pushing each element of
\* other in order does, from the same state and bases, and leaves other empty
T14_AppendIsRepeatedPush ==
    [][ Calls("append") =>
          /\ hashed' = PushEach(hashed, call'.arg)
          /\ source' = source \o call'.arg
          /\ base' = base
          /\ call'.other = <<>> ]_vars

W14_AppendedTwoToOne ==
    /\ call.fn = "append"
    /\ Len(call.arg) = 2
    /\ Len(source) = 3
    /\ call.arg[1] # call.arg[2]
    /\ call.other = <<>>

---------------------------------------------------------------------------
(* Window iterator stepped from both ends: claims *)

\* the number of windows of the iterator's length in source
WindowCount == Len(source) - it.size + 1

\* C15 as stated: under any interleaving of next and next_back on one
\* iterator of window length k, 1 <= k <= n, the i-th item of next is
\* hash_slice of the window at i, the j-th item of next_back is hash_slice of
\* the window at n - k - j (i, j from 0), and an end reports None only after
\* n - k + 1 items
C15_InterleavedIsDirectFold ==
    (it.alive /\ it.size <= Len(source)) =>
        /\ Len(yielded.next) + Len(yielded.next_back) <= WindowCount
        /\ \A i \in 1..Len(yielded.next) :
              yielded.next[i] = WindowFold(i - 1, it.size)
        /\ \A j \in 1..Len(yielded.next_back) :
              yielded.next_back[j] = WindowFold(WindowCount - j, it.size)
        /\ (call.fn \in {"next", "next_back"} /\ ~call.ret.some)
               => Len(yielded.next) + Len(yielded.next_back) = WindowCount

\* max(0, remaining_length - k + 1) for the iterator w
Remaining(w) ==
    IF Len(w.hashed) - w.size + 1 > 0 THEN Len(w.hashed) - w.size + 1 ELSE 0

\* a step of next or next_back on the live iterator
Stepped == it.alive /\ it'.alive

\* C16: size_hint is (c, Some(c)) with c = max(0, remaining_length - k + 1);
\* next and next_back return Some and lower c by exactly 1 iff c > 0, and
\* return None and leave the iterator as it was iff c = 0
T16_SizeHintIsExact ==
    /\ [](it.alive =>
            /\ size_hint(it) = <<Remaining(it), Some(Remaining(it))>>
            /\ (call.fn \in {"next", "next_back"} /\ ~call.ret.some)
                   => Remaining(it) = 0)
    /\ [][ Stepped =>
              /\ call'.fn \in {"next", "next_back"}
              /\ call'.ret.some <=> Remaining(it) > 0
              /\ call'.ret.some =>
                    (/\ Remaining(it') = Remaining(it) - 1
                     /\ size_hint(it')[1] = size_hint(it)[1] - 1)
              /\ ~call'.ret.some => it' = it ]_vars

W16_BothEndsExhausted ==
    /\ it.alive
    /\ call.fn = "next_back"
    /\ ~call.ret.some
    /\ yielded.next # <<>>
    /\ Len(yielded.next_back) = 2
    /\ size_hint(it) = <<0, Some(0)>>

---------------------------------------------------------------------------
(* Prefix hashes: claims *)

\* (prev * b + v) mod P in unbounded arithmetic
WideExtend(prev, b, v) == BMod(BAdd(BMul(prev, b), v), P)

\* C17: after pushing v_0 .. v_{n-1} (each < P), hashed[0][b] = v_0 and
\* hashed[i][b] = (hashed[i-1][b] * base[b] + v_i) mod P for i >= 1, and
\* hashed[i] = hash_slice(v_0 .. v_i)
T17_PrefixRecurrence ==
    \A i \in 1..Len(hashed) :
        /\ Len(hashed[i]) = Len(base)
        /\ \A j \in 1..Len(base) :
              hashed[i][j] = IF i = 1 THEN source[1]
                             ELSE WideExtend(hashed[i - 1][j], base[j], source[i])
        /\ hashed[i] = hash_slice(base, SubSeq(source, 1, i))

W17_ThreePushedTwoBases ==
    /\ call.fn = "push"
    /\ Len(hashed) = MaxLen
    /\ Len(base) = 2
    /\ source[1] # source[2]
    /\ hashed[MaxLen][1] # hashed[MaxLen][2]

---------------------------------------------------------------------------
(* 64-bit range of the intermediates: claims *)

\* every operation of mul_mod(lhs, rhs), taken in unbounded arithmetic on the
\* operands the code gives it, has a result below 2^64
mul_mod_fits(lhs, rhs) ==
    LET lhs_l == BAnd(lhs, LOWER_MASK)
        lhs_u == BShr(lhs, LOWER_BITS)
        rhs_l == BAnd(rhs, LOWER_MASK)
        rhs_u == BShr(rhs, LOWER_BITS)
        uu1 == u64_mul(lhs_u, rhs_u)
        uu2 == u64_mul(uu1, parity_factor)
        uu == mul_mod_uu(lhs_u, rhs_u)
        sum == mul_mod_cross_sum(lhs_l, lhs_u, rhs_l, rhs_u)
        cross_l == BAnd(sum, LOWER_MASK)
        cross_u == BShr(sum, LOWER_BITS)
        cu1 == u64_mul(cross_u, parity_factor)
        cross == mul_mod_cross(sum)
        ll == mul_mod_ll(lhs_l, rhs_l)
    IN  /\ IsU64(BMul(lhs_u, rhs_u))
        /\ IsU64(BMul(uu1, parity_factor))
        /\ IsU64(BMul(uu2, DIFF))
        /\ IsU64(BMul(lhs_u, rhs_l))
        /\ IsU64(BMul(lhs_l, rhs_u))
        /\ IsU64(BAdd(u64_mul(lhs_u, rhs_l), u64_mul(lhs_l, rhs_u)))
        /\ IsU64(BMul(cross_u, parity_factor))
        /\ IsU64(BMul(cu1, DIFF))
        /\ IsU64(BShl(cross_l, LOWER_BITS))
        /\ IsU64(BAdd(u64_mul(cu1, DIFF), u64_shl(cross_l, LOWER_BITS)))
        /\ IsU64(BMul(lhs_l, rhs_l))
        /\ IsU64(BAdd(u64_rem(uu, P), cross))
        /\ IsU64(BAdd(u64_add(u64_rem(uu, P), cross), ll))

\* C18: for every supported prime P = 2^E - D with split width L = ceil(E / 2)
\* and all a, b < P no intermediate of mul_mod(a, b) reaches 2^64; for
\* reduced prev, next and hashed, mul_mod(..) + next and hashed + P -
\* mul_mod(..) are below 2^64 and the subtraction does not go below 0
T18_NoIntermediateWraps ==
    /\ BAdd(P, DIFF) = BShl(One, EXP)
    /\ call.fn = "mul_mod" =>
          ((BLt(call.lhs, P) /\ BLt(call.rhs, P)) =>
              /\ mul_mod_fits(call.lhs, call.rhs)
              /\ \A v \in Operands(P) :
                    /\ IsU64(BAdd(call.ret, v))
                    /\ IsU64(BAdd(v, P))
                    /\ BLe(call.ret, BAdd(v, P)))

W18_LargestHalves ==
    /\ call.fn = "mul_mod"
    /\ call.lhs = LowOnes
    /\ call.rhs = BSub(P, One)
    /\ P = PRIMES[1]

====
